---- MODULE Spec2Model ----
(***************************************************************************)
(* TomograPy / siddon: conic tomographic projector and backprojector.      *)
(* A verification model of src/siddon/siddon.py: header geometry           *)
(* (map_borders), the pose rotation matrix, the ray/box intersection, the  *)
(* ray-tracing initialisation and the entry points projector /             *)
(* backprojector / projector4d / backprojector4d.                          *)
(*                                                                         *)
(* Numbers.  The program computes in IEEE floating point.  The model       *)
(* computes in exact rationals extended with the IEEE special values, so   *)
(* that x/0 and 0/0 behave as in the program:                              *)
(*     <<n, d>>, d > 0, gcd(n, d) = 1    the rational n/d                  *)
(*     <<0, -1>>                         the negative zero -0.0            *)
(*     <<1, 0>>, <<-1, 0>>               +infinity, -infinity              *)
(*     <<0, 0>>                          NaN                               *)
(* Rounding is not modelled.  An arithmetic result that is zero is +0.0;   *)
(* a negative zero only ever enters as a ray direction component, which    *)
(* is the only place the program divides by a value that can be zero.      *)
(***************************************************************************)
EXTENDS Integers, Sequences, FiniteSets, TLC

VARIABLES
    hdr,          \* the cube (map) header: a dict from keys to values
    hop,          \* the last operation applied to the header
    built,        \* the arguments hdr was built from, while no key was changed
    nset,         \* the number of geometry changes made so far
    los,          \* the line of sight being traced: origin M, direction u
    obst,         \* the obstacle it is traced with: "None" or "sun"
    rt,           \* the ray tracing state of that line of sight
    data,         \* the data array: dtype, one value per ray, the rays
    cube,         \* the cube array: dtype, ndim, frames of voxels, header
    api,          \* the last entry point called, and how the call ended
    pose,         \* the pose of an image and its cached rotation matrix
    det,          \* the detector of that image and its lines of sight
    par           \* a backprojection shared between workers

hvars == <<hdr, hop, built, nset>>

rvars == <<los, obst, rt>>

avars == <<data, cube, api>>

vars == <<hdr, hop, built, nset, los, obst, rt, data, cube, api, pose, det, par>>

----------------------------------------------------------------------------
(* Extended rational arithmetic.                                           *)

\* the element of a one-element set.  Only({f(x) : x \in {e}}) is f(e),
\* with e computed once however often f uses it.
Only(S) == CHOOSE x \in S : TRUE

RECURSIVE GCD(_, _)
GCD(a, b) == IF b = 0 THEN a ELSE Only({GCD(b, r) : r \in {a % b}})

IAbs(i) == IF i < 0 THEN -i ELSE i

ISgn(i) == IF i < 0 THEN -1 ELSE IF i > 0 THEN 1 ELSE 0

\* the rational n/d (d # 0) in lowest terms with a positive denominator
Norm(n, d) ==
    Only({<<((IF d < 0 THEN -1 ELSE 1) * n) \div g, IAbs(d) \div g>> :
            g \in {GCD(IAbs(n), IAbs(d))}})

F(i) == <<i, 1>>

NaN == <<0, 0>>
PInf == <<1, 0>>
NInf == <<-1, 0>>
NegZero == <<0, -1>>

IsNaN(a) == a = NaN
IsInf(a) == a[2] = 0 /\ a[1] # 0
IsFin(a) == a[2] # 0
IsZero(a) == a[2] # 0 /\ a[1] = 0
Den(a) == IAbs(a[2])

\* the sign bit: -1 for negative values, -0.0 and -infinity
SignBit(a) == IF a[1] < 0 \/ (a[1] = 0 /\ a[2] < 0) THEN -1 ELSE 1

FNeg(a) ==
    IF IsNaN(a) THEN NaN
    ELSE IF IsZero(a) THEN <<0, 1>>
    ELSE <<-a[1], a[2]>>

FAdd(a, b) ==
    IF IsNaN(a) \/ IsNaN(b) THEN NaN
    ELSE IF IsInf(a) /\ IsInf(b) THEN (IF a = b THEN a ELSE NaN)
    ELSE IF IsInf(a) THEN a
    ELSE IF IsInf(b) THEN b
    ELSE Norm(a[1] * Den(b) + b[1] * Den(a), Den(a) * Den(b))

FSub(a, b) == FAdd(a, FNeg(b))

FMul(a, b) ==
    IF IsNaN(a) \/ IsNaN(b) THEN NaN
    ELSE IF IsInf(a) \/ IsInf(b)
         THEN (IF IsZero(a) \/ IsZero(b) THEN NaN
               ELSE <<SignBit(a) * SignBit(b), 0>>)
    ELSE Norm(a[1] * b[1], Den(a) * Den(b))

\* IEEE division: x/0 is an infinity signed by both operands, 0/0 is NaN
FDiv(a, b) ==
    IF IsNaN(a) \/ IsNaN(b) THEN NaN
    ELSE IF IsInf(a)
         THEN (IF IsInf(b) THEN NaN ELSE <<SignBit(a) * SignBit(b), 0>>)
    ELSE IF IsInf(b) THEN <<0, 1>>
    ELSE IF IsZero(b)
         THEN (IF IsZero(a) THEN NaN ELSE <<SignBit(a) * SignBit(b), 0>>)
    ELSE Norm(a[1] * Den(b), Den(a) * b[1])

\* comparisons: every comparison with NaN is false
FLt(a, b) ==
    /\ ~IsNaN(a)
    /\ ~IsNaN(b)
    /\ IF IsInf(a) THEN a = NInf /\ b # NInf
       ELSE IF IsInf(b) THEN b = PInf
       ELSE a[1] * Den(b) < b[1] * Den(a)

FGt(a, b) == FLt(b, a)

FEq(a, b) ==
    /\ ~IsNaN(a)
    /\ ~IsNaN(b)
    /\ IF IsInf(a) \/ IsInf(b) THEN a = b
       ELSE a[1] * Den(b) = b[1] * Den(a)

FLe(a, b) == FLt(a, b) \/ FEq(a, b)

FGe(a, b) == FLe(b, a)

FAbs(a) ==
    IF IsNaN(a) THEN NaN
    ELSE IF IsInf(a) THEN PInf
    ELSE <<IAbs(a[1]), Den(a)>>

\* the integer part of a finite value, rounded towards zero
ITrunc(a) == ISgn(a[1]) * (IAbs(a[1]) \div Den(a))

----------------------------------------------------------------------------
(* Headers.  A header is a dict; a key "NAXIS1" is the pair <<"NAXIS", 1>>  *)
(* and a key without a digit suffix ("NAXIS") has the suffix -1.            *)

NoSuffix == -1

NotBuilt == <<>>

Axes == 0 .. 2

\* array_to_dict, arr.ndim == 1: h[name + str(i)] = arr[i]
array_to_dict(indict, name, arr) ==
    LET new == {<<name, i>> : i \in DOMAIN arr}
    IN  [k \in (DOMAIN indict) \cup new |->
            IF k \in new THEN arr[k[2]] ELSE indict[k]]

\* get_header_array_shape, 1d keys: the keys name<digits> give the array's
\* length imax + 1 - imin and its first suffix imin
get_header_array_shape(h, name) ==
    LET idx == {k[2] : k \in {q \in DOMAIN h : q[1] = name /\ q[2] # NoSuffix}}
        imax == IF \E i \in idx : i > 0
                THEN CHOOSE i \in idx : \A j \in idx : j <= i ELSE 0
        imin == IF \E i \in idx : i < 10
                THEN CHOOSE i \in idx : \A j \in idx : i <= j ELSE 10
    IN  [is1d |-> idx # {}, len |-> imax + 1 - imin, imin |-> imin]

\* dict_to_array, 1d: arr[i] = h[name + str(i + imin)]
dict_to_array(h, name) ==
    LET s == get_header_array_shape(h, name)
    IN  [i \in 0 .. (s.len - 1) |-> h[<<name, i + s.imin>>]]

\* centered_cubic_map_header: shape and pshape are tuples of 1 or 3 entries
\* (a scalar is a 1-tuple); a 2-tuple raises ValueError
Spread3(t) == IF Len(t) = 1 THEN <<t[1], t[1], t[1]>> ELSE t

centered_cubic_map_header_ok(pshape, shape) ==
    Len(shape) \in {1, 3} /\ Len(pshape) \in {1, 3}

centered_cubic_map_header(pshape, shape) ==
    LET sh == Spread3(shape)
        ps == Spread3(pshape)
        scalars == {<<"SIMPLE", NoSuffix>>, <<"BITPIX", NoSuffix>>,
                    <<"NAXIS", NoSuffix>>}
        perAxis == {<<n, i>> : n \in {"NAXIS", "CRPIX", "CDELT", "CRVAL"},
                               i \in 1 .. 3}
    IN  [k \in scalars \cup perAxis |->
            CASE k[1] = "SIMPLE" -> F(1)
              [] k[1] = "BITPIX" -> F(-64)
              [] k[1] = "NAXIS" /\ k[2] = NoSuffix -> F(3)
              [] k[1] = "NAXIS" /\ k[2] # NoSuffix -> sh[k[2]]
              [] k[1] = "CRPIX" -> FDiv(sh[k[2]], F(2))
              [] k[1] = "CDELT" -> FDiv(ps[k[2]], sh[k[2]])
              [] k[1] = "CRVAL" -> F(0)]

\* map_borders with Mmax one cell, not one grid, above Mmin
map_borders_one_cell(h) ==
    LET cdelt == dict_to_array(h, "CDELT")
        crpix == dict_to_array(h, "CRPIX")
        naxis == dict_to_array(h, "NAXIS")
        pshape == [i \in DOMAIN cdelt |-> FMul(cdelt[i], naxis[i])]
        h1 == array_to_dict(h, "PSHAPE", pshape)
        Mmin == [i \in DOMAIN cdelt |-> FMul(FNeg(crpix[i]), cdelt[i])]
        h2 == array_to_dict(h1, "Mmin", Mmin)
        Mmax == [i \in DOMAIN cdelt |-> FAdd(Mmin[i], cdelt[i])]
    IN  array_to_dict(h2, "Mmax", Mmax)

\* map_borders: PSHAPE = CDELT * NAXIS, Mmin = -CRPIX * CDELT,
\* Mmax = Mmin + PSHAPE, written back under the suffixes 0, 1, 2
map_borders(h) ==
    LET cdelt == dict_to_array(h, "CDELT")
        crpix == dict_to_array(h, "CRPIX")
        naxis == dict_to_array(h, "NAXIS")
        pshape == [i \in DOMAIN cdelt |-> FMul(cdelt[i], naxis[i])]
        h1 == array_to_dict(h, "PSHAPE", pshape)
        Mmin == [i \in DOMAIN cdelt |-> FMul(FNeg(crpix[i]), cdelt[i])]
        h2 == array_to_dict(h1, "Mmin", Mmin)
        Mmax == [i \in DOMAIN cdelt |-> FAdd(Mmin[i], pshape[i])]
    IN  array_to_dict(h2, "Mmax", Mmax)

----------------------------------------------------------------------------
(* Box intersection.  A ray is [M |-> origin, u |-> direction], both       *)
(* arrays over the axes 0, 1, 2; h is the map header after map_borders.    *)

\* compare, one element: (imin, imax) = (a1, an) where a1 < an, else (an, a1)
compare(a1, an) ==
    LET w == FLt(a1, an)
    IN  [imin |-> IF w THEN a1 ELSE an, imax |-> IF w THEN an ELSE a1]

\* max3 with y taken only where it is strictly above x
max3_strict(x, y, z) ==
    LET w1 == FGt(x, y) /\ FGt(x, z)
        w2 == FGt(y, x) /\ FGt(y, z)
    IN  IF w2 THEN y ELSE IF w1 THEN x ELSE z

\* max3, one element: z, overwritten by x where w1, then by y where w2
max3(x, y, z) ==
    LET w1 == FGt(x, y) /\ FGt(x, z)
        w2 == FGe(y, x) /\ FGt(y, z)
    IN  IF w2 THEN y ELSE IF w1 THEN x ELSE z

\* min3, one element
min3(x, y, z) ==
    LET w1 == FLt(x, y) /\ FLt(x, z)
        w2 == FLe(y, x) /\ FLt(y, z)
    IN  IF w2 THEN y ELSE IF w1 THEN x ELSE z

\* the per-axis parameters of intersect_cube's loop
ray_p(ray, h) ==
    LET pshape == dict_to_array(h, "PSHAPE")
    IN  [i \in Axes |-> FDiv(pshape[i], ray.u[i])]

ray_a1(ray, h) ==
    LET Mmin == dict_to_array(h, "Mmin")
    IN  [i \in Axes |-> FDiv(FSub(Mmin[i], ray.M[i]), ray.u[i])]

ray_an(ray, h) ==
    LET Mmax == dict_to_array(h, "Mmax")
    IN  [i \in Axes |-> FDiv(FSub(Mmax[i], ray.M[i]), ray.u[i])]

\* Imin, Imax = compare(a1, an)
ray_I(ray, h) ==
    LET a1 == ray_a1(ray, h)
        an == ray_an(ray, h)
    IN  [i \in Axes |-> compare(a1[i], an[i])]

\* amin = max3(Imin[..., 0], Imin[..., 1], Imin[..., 2]): the entry parameter
ray_amin(ray, h) ==
    LET I == ray_I(ray, h) IN max3(I[0].imin, I[1].imin, I[2].imin)

\* amax = min3(Imax[..., 0], Imax[..., 1], Imax[..., 2]): the exit parameter
ray_amax(ray, h) ==
    LET I == ray_I(ray, h) IN min3(I[0].imax, I[1].imax, I[2].imax)

\* intersect_cube: flag = amin < amax; returns flag, p, a1, amin
\* intersect_cube with the comparison of the flag turned round
intersect_cube_reversed(ray, h) ==
    [flag |-> FLt(ray_amax(ray, h), ray_amin(ray, h)),
     p |-> ray_p(ray, h),
     a1 |-> ray_a1(ray, h),
     amin |-> ray_amin(ray, h)]

intersect_cube(ray, h) ==
    [flag |-> FLt(ray_amin(ray, h), ray_amax(ray, h)),
     p |-> ray_p(ray, h),
     a1 |-> ray_a1(ray, h),
     amin |-> ray_amin(ray, h)]

----------------------------------------------------------------------------
(* Ray-tracing initialisation.                                             *)

\* An index far outside every grid: it stands for the uint32 values that a
\* wrapped subtraction or an undefined conversion produces (up to 2^32 - 1).
WrapIndex == 1000

\* a - b in uint32 arithmetic
uint32_sub(a, b) == IF a >= b THEN a - b ELSE WrapIndex

\* sign, one element.  s is allocated with np.empty and written only where
\* arr < 0, arr > 0 or arr == 0: for a NaN it keeps what the memory held (g)
sign(arr, g) ==
    IF FLt(arr, F(0)) THEN -1
    ELSE IF FGt(arr, F(0)) THEN 1
    ELSE IF FEq(arr, F(0)) THEN 0
    ELSE g

\* x.astype(np.uint32) of a non-negative float: the integer part; the
\* conversion of a NaN, an infinity or a value out of range is undefined (g)
astype_uint32(x, g) ==
    IF IsFin(x) /\ FLt(x, F(WrapIndex)) /\ FGt(x, F(-1)) THEN ITrunc(x) ELSE g

\* in_obj: every index inside the grid
in_obj(shape, iv) ==
    \A k \in Axes : iv[k] >= 0 /\ iv[k] < shape[k]

\* e: the point of the line of sight at the parameter amin
ray_e(ray, amin) ==
    [k \in Axes |-> FAdd(ray.M[k], FMul(amin, ray.u[k]))]

\* initialize_raytracing; returns update, iv, D.
\* gs, gc: what sign and astype leave undefined
initialize_raytracing(ray, h, p, a1, amin, gs, gc) ==
    LET Mmin == dict_to_array(h, "Mmin")
        pshape == dict_to_array(h, "PSHAPE")
        cdelt == dict_to_array(h, "CDELT")
        e == ray_e(ray, amin)
        update == [k \in Axes |-> sign(e[k], gs[k])]
        iv == [k \in Axes |->
                 uint32_sub(
                   astype_uint32(FAbs(FDiv(FSub(e[k], Mmin[k]), cdelt[k])), gc),
                   astype_uint32(FAbs(FDiv(FSub(e[k], Mmin[k]), pshape[k])), gc))]
        next == [k \in Axes |->
                   IF update[k] = 0 THEN PInf
                   ELSE FAdd(F(iv[k]), Norm(update[k] + 1, 2))]
        D0 == [k \in Axes |-> FSub(FAdd(FMul(next[k], p[k]), a1[k]), amin)]
        D == [k \in Axes |-> IF IsNaN(D0[k]) THEN PInf ELSE D0[k]]
    IN  [update |-> update, iv |-> iv, D |-> D]

\* pabs = np.abs(p)
ray_pabs(p) == [k \in Axes |-> FAbs(p[k])]

\* the grid shape (NAXIS1, NAXIS2, NAXIS3) as integers
grid_shape(h) ==
    LET naxis == dict_to_array(h, "NAXIS")
    IN  [k \in Axes |-> ITrunc(naxis[k])]

----------------------------------------------------------------------------
(* Obstacle trim and voxel walker.  siddon.py leaves voxel() unimplemented *)
(* and delegates the traversal to a compiled kernel; both are modelled     *)
(* from the design: sections 4.4 and 4.5.                                  *)

IsSquare(n) == n >= 0 /\ \E r \in 0 .. n : r * r = n

ISqrt(n) == CHOOSE r \in 0 .. n : r * r = n

Dot3(a, b) ==
    FAdd(FAdd(FMul(a[0], b[0]), FMul(a[1], b[1])), FMul(a[2], b[2]))

\* the discriminant (quarter) of |M + a u|^2 = 1
sphere_disc(ray) ==
    LET A == Dot3(ray.u, ray.u)
        B == Dot3(ray.M, ray.u)
        C == FSub(Dot3(ray.M, ray.M), F(1))
    IN  FSub(FMul(B, B), FMul(A, C))

sphere_hit(ray) == ~FLt(sphere_disc(ray), F(0))

\* the model computes square roots of rational squares only
ExactRoots(ray) ==
    LET d == sphere_disc(ray)
    IN  FLt(d, F(0)) \/ (IsSquare(d[1]) /\ IsSquare(Den(d)))

\* the two roots of the ray / unit sphere quadratic, near root first
sphere_roots(ray) ==
    LET A == Dot3(ray.u, ray.u)
        B == Dot3(ray.M, ray.u)
        d == sphere_disc(ray)
        s == <<ISqrt(d[1]), ISqrt(Den(d))>>
    IN  <<FDiv(FSub(FNeg(B), s), A), FDiv(FAdd(FNeg(B), s), A)>>

\* obstacle_trim stopping at the far side of the obstacle
obstacle_trim_far(ray, amin, amax) ==
    IF ~sphere_hit(ray) THEN amax
    ELSE LET r == sphere_roots(ray)
         IN  IF FLe(amin, r[1]) /\ FLe(r[2], amax)
             THEN (IF FLt(r[2], amax) THEN r[2] ELSE amax)
             ELSE amax

\* 4.4: if both roots fall inside [entry, exit] the usable range is
\* [entry, min(exit, first_root)]; otherwise the full range stands
obstacle_trim(ray, amin, amax) ==
    IF ~sphere_hit(ray) THEN amax
    ELSE LET r == sphere_roots(ray)
         IN  IF FLe(amin, r[1]) /\ FLe(r[2], amax)
             THEN (IF FLt(r[1], amax) THEN r[1] ELSE amax)
             ELSE amax

FMin2(a, b) == IF FLt(b, a) THEN b ELSE a

\* 4.5 steps 5 and 6, one iteration.  w = [iv, D, ac, segs, done]: the
\* current voxel, the distances from the entry to the next boundaries, the
\* running parameter, the segments emitted so far.  A next boundary at
\* -infinity is never passed: the loop repeats the same iteration for ever
\* (stuck).
voxel(w, update, pabs, amin, exit, shape) ==
    IF ~in_obj(shape, w.iv) THEN [w EXCEPT !.done = TRUE]
    ELSE
      LET dmin == FMin2(FMin2(w.D[0], w.D[1]), w.D[2])
          nxt == FAdd(amin, dmin)
      IN  IF dmin = NInf
          THEN [w EXCEPT !.done = TRUE, !.stuck = TRUE]
          ELSE IF ~FLt(nxt, exit)
          THEN [w EXCEPT !.segs = Append(@, [iv |-> w.iv,
                                             len |-> FSub(exit, w.ac)]),
                         !.ac = exit,
                         !.done = TRUE]
          ELSE [w EXCEPT !.segs = Append(@, [iv |-> w.iv,
                                             len |-> FSub(nxt, w.ac)]),
                         !.ac = nxt,
                         !.iv = [k \in Axes |->
                                   IF w.D[k] = dmin THEN w.iv[k] + update[k]
                                   ELSE w.iv[k]],
                         !.D = [k \in Axes |->
                                   IF w.D[k] = dmin THEN FAdd(w.D[k], pabs[k])
                                   ELSE w.D[k]]]

RECURSIVE walk(_, _, _, _, _, _)
walk(w, update, pabs, amin, exit, shape) ==
    IF w.done THEN w
    ELSE Only({walk(n, update, pabs, amin, exit, shape) :
                 n \in {voxel(w, update, pabs, amin, exit, shape)}})

walk_start(init, amin) ==
    [iv |-> init.iv, D |-> init.D, ac |-> amin, segs |-> <<>>,
     done |-> FALSE, stuck |-> FALSE]

----------------------------------------------------------------------------
(* The compiled kernel and the four entry points.  An array is a record:   *)
(* data = [dtype, val, rays], one value and one line of sight per ray;     *)
(* cube = [dtype, ndim, val, header], val a sequence of frames (one frame  *)
(* for a 3d cube, one per image for a 4d cube), a frame a function from    *)
(* voxel indices <<i, j, k>> to values.                                    *)

NoGarbage == [k \in Axes |-> 0]

\* 4.5 for one ray that intersects the box: the walk from the state
\* initialize_raytracing leaves, up to the parameter exit
ray_walk(ray, h, ic, exit) ==
    Only({walk(walk_start(init, ic.amin), init.update, ray_pabs(ic.p),
               ic.amin, exit, grid_shape(h)) :
            init \in {initialize_raytracing(ray, h, ic.p, ic.a1, ic.amin,
                                            NoGarbage, 0)}})

\* 4.3 - 4.5 for one ray: its (voxel, segment length) sequence
ray_segs(ray, h, obstacle) ==
    Only({IF ~ic.flag THEN <<>>
          ELSE ray_walk(ray, h, ic,
                        IF obstacle = "sun"
                        THEN obstacle_trim(ray, ic.amin, ray_amax(ray, h))
                        ELSE ray_amax(ray, h)).segs :
            ic \in {intersect_cube(ray, h)}})

Vox(iv) == <<iv[0], iv[1], iv[2]>>

\* 4.6: sum(grid[voxel_index] * segment_length) over the segments
RECURSIVE SegSum(_, _)
SegSum(segs, frame) ==
    IF segs = <<>> THEN F(0)
    ELSE FAdd(FMul(frame[Vox(Head(segs).iv)], Head(segs).len),
              SegSum(Tail(segs), frame))

\* 4.7: add ray_value * segment_length into grid[voxel_index], per segment
RECURSIVE AddSegs(_, _, _)
AddSegs(frame, segs, y) ==
    IF segs = <<>> THEN frame
    ELSE AddSegs([frame EXCEPT ![Vox(Head(segs).iv)] =
                                  FAdd(@, FMul(y, Head(segs).len))],
                 Tail(segs), y)

\* the frame of the cube a ray reads and writes: the only frame of a 3d
\* cube, the frame of the ray's image for a 4d cube (one ray per image)
ray_frame(pj, r) == IF pj \in {"pjt", "bpjt"} THEN r ELSE 1

\* backprojection of the rays r .. Len(segs), one after the other; segs[r]
\* is the segment sequence of ray r
RECURSIVE BackprojectFrom(_, _, _, _, _)
BackprojectFrom(r, pj, val, y, segs) ==
    IF r > Len(segs) THEN val
    ELSE Only({BackprojectFrom(r + 1, pj, v, y, segs) :
                 v \in {[val EXCEPT ![ray_frame(pj, r)] =
                           AddSegs(@, segs[r], y[r])]}})

\* the kernel siddon_<ctype>_<obstacle>_<pj>(data, cube): the values of
\* data and cube when it returns
siddon(pj, d, c, obstacle) ==
    Only({IF pj \in {"pj", "pjt"}
          THEN [data |-> [r \in 1 .. Len(d.rays) |->
                           FAdd(d.val[r],
                                SegSum(segs[r], c.val[ray_frame(pj, r)]))],
                cube |-> c.val]
          ELSE [data |-> d.val,
                cube |-> BackprojectFrom(1, pj, c.val, d.val, segs)] :
            segs \in {[r \in 1 .. Len(d.rays) |->
                         ray_segs(d.rays[r], c.header, obstacle)]}})

\* parse_templates: the dtypes and the obstacles a kernel is compiled for
ctypes_inv == {"float32", "float64"}
obstacles_inv == {"None", "sun"}

\* dict(cube.header)
dict(h) == [k \in DOMAIN h |-> h[k]]

\* the lookups in ctypes_inv and obstacles_inv (KeyError for a key that is
\* not there), then the call of the kernel they name
dispatch(pj, d, c, obstacle) ==
    IF d.dtype \notin ctypes_inv \/ obstacle \notin obstacles_inv
    THEN [outcome |-> "KeyError", ran |-> FALSE, data |-> d, cube |-> c]
    ELSE Only({[outcome |-> "ok", ran |-> TRUE,
                data |-> [d EXCEPT !.val = k.data],
                cube |-> [c EXCEPT !.val = k.cube]] :
                 k \in {siddon(pj, d, c, obstacle)}})

\* the body the four entry points share, up to the name of the kernel
entry_point(pj, d, c0, obstacle) ==
    IF d.dtype # c0.dtype
    THEN [outcome |-> "ValueError", ran |-> FALSE, data |-> d,
          cube |-> [c0 EXCEPT !.header = dict(c0.header)]]
    ELSE Only({dispatch(pj, d, c, obstacle) :
                 c \in {[c0 EXCEPT !.header = dict(c0.header)]}})

\* projector with the obstacle of an unknown name taken as no obstacle
projector_lenient(d, c, obstacle) ==
    entry_point("pj", d, c,
                IF obstacle \in obstacles_inv THEN obstacle ELSE "None")

\* backprojector naming the projection kernel
backprojector_pj(d, c, obstacle) == entry_point("pj", d, c, obstacle)

\* backprojector4d without the dtype test
backprojector4d_unchecked(d, c, obstacle) == dispatch("bpjt", d, c, obstacle)

projector(d, c, obstacle) == entry_point("pj", d, c, obstacle)

backprojector(d, c, obstacle) == entry_point("bpj", d, c, obstacle)

projector4d(d, c, obstacle) == entry_point("pjt", d, c, obstacle)

backprojector4d(d, c, obstacle) == entry_point("bpjt", d, c, obstacle)

----------------------------------------------------------------------------
(* The pose rotation matrix.  Angles are counted in quarter turns (pi/2),  *)
(* where every sine and cosine is -1, 0 or 1.                              *)

cos(q) == CASE q % 4 = 0 -> 1 [] q % 4 = 2 -> -1 [] OTHER -> 0

sin(q) == CASE q % 4 = 1 -> 1 [] q % 4 = 3 -> -1 [] OTHER -> 0

\* rotation_matrix with the last entry a copy of the one before it
rotation_matrix_copied(lon, lat, rol) ==
    [i \in Axes |-> [j \in Axes |->
        CASE i = 0 /\ j = 0 -> - cos(lon) * cos(lat)
          [] i = 0 /\ j = 1 -> - sin(lon) * cos(rol)
                                - cos(lon) * sin(lat) * sin(rol)
          [] i = 0 /\ j = 2 ->   sin(lon) * sin(rol)
                                - cos(lon) * sin(lat) * cos(rol)
          [] i = 1 /\ j = 0 -> - sin(lon) * cos(lat)
          [] i = 1 /\ j = 1 ->   cos(lon) * cos(rol)
                                - sin(lon) * sin(lat) * sin(rol)
          [] i = 1 /\ j = 2 -> - cos(lon) * sin(rol)
                                - sin(lon) * sin(lat) * cos(rol)
          [] i = 2 /\ j = 0 -> - sin(lat)
          [] OTHER -> cos(lat) * sin(rol)]]

rotation_matrix(lon, lat, rol) ==
    LET cosln == cos(lon)
        sinln == sin(lon)
        coslt == cos(lat)
        sinlt == sin(lat)
        cosrl == cos(rol)
        sinrl == sin(rol)
    IN  [i \in Axes |-> [j \in Axes |->
          CASE i = 0 /\ j = 0 -> - cosln * coslt
            [] i = 0 /\ j = 1 -> - sinln * cosrl - cosln * sinlt * sinrl
            [] i = 0 /\ j = 2 ->   sinln * sinrl - cosln * sinlt * cosrl
            [] i = 1 /\ j = 0 -> - sinln * coslt
            [] i = 1 /\ j = 1 ->   cosln * cosrl - sinln * sinlt * sinrl
            [] i = 1 /\ j = 2 -> - cosln * sinrl - sinln * sinlt * cosrl
            [] i = 2 /\ j = 0 -> - sinlt
            [] i = 2 /\ j = 1 ->   coslt * sinrl
            [] i = 2 /\ j = 2 ->   coslt * cosrl]]

----------------------------------------------------------------------------
(* One line of sight traced through the grid, step by step.                *)

MaxCoord == 2

Zero3 == [k \in Axes |-> F(0)]

NoTrace ==
    [pc |-> "start", flag |-> FALSE, p |-> Zero3, a1 |-> Zero3,
     amin |-> F(0), amax |-> F(0), exit |-> F(0),
     update |-> [k \in Axes |-> 0], w |-> walk_start(
        [iv |-> [k \in Axes |-> 0], D |-> Zero3], F(0))]

IdleRay ==
    /\ los = [M |-> Zero3, u |-> Zero3]
    /\ obst = "None"
    /\ rt = NoTrace

IdleHdr(h) ==
    /\ hdr = h
    /\ hop = "map_borders"
    /\ built = NotBuilt
    /\ nset = 0

NoMatrix == <<>>

NoArray == [dtype |-> "float64", val |-> <<>>]

IdleApi ==
    /\ data = NoArray
    /\ cube = NoArray
    /\ api = [op |-> "none"]

IdlePose == pose = [LON |-> 0, LAT |-> 0, ROL |-> 0, R |-> NoMatrix]

IdleDet == det = [op |-> "none"]

IdlePar == par = [mode |-> "none"]

\* the grids lines of sight are traced through
CenteredMap(ps, sh) ==
    map_borders(centered_cubic_map_header(<<F(ps)>>, <<F(sh)>>))

CornerMap ==
    LET c == centered_cubic_map_header(<<F(2), F(2), F(1)>>,
                                       <<F(2), F(2), F(1)>>)
    IN  map_borders([k \in DOMAIN c |-> IF k[1] = "CRPIX" THEN F(0) ELSE c[k]])

RayMaps == {CenteredMap(3, 2), CenteredMap(1, 1), CornerMap}

\* origins: x and y on the integers up to MaxCoord; z on a face of one grid
\* or another (0, 1/2) or above them all (MaxCoord)
CoordVals == {F(i) : i \in (-MaxCoord) .. MaxCoord} \cup {Norm(1, 2)}

CoordValsZ == {F(0), Norm(1, 2), F(MaxCoord)}

\* directions: x and y in both senses, of slope 1 and 2, and both zeros
DirVals == {F(-1), NegZero, F(0), F(1), F(2)}

DirValsZ == {F(0), F(-1)}

Rays ==
    {r \in [M : [Axes -> CoordVals], u : [Axes -> DirVals]] :
        /\ r.M[0] # Norm(1, 2)
        /\ r.M[1] # Norm(1, 2)
        /\ r.M[2] \in CoordValsZ
        /\ r.u[2] \in DirValsZ
        /\ \E k \in Axes : ~IsZero(r.u[k])}

GarbageSign == {-1, 0, 1}
GarbageUint == {0, WrapIndex}

InitRay ==
    /\ \E h \in RayMaps : IdleHdr(h)
    /\ los \in Rays
    /\ obst \in {"None", "sun"}
    /\ obst = "sun" => sphere_hit(los) /\ ExactRoots(los)
    /\ rt = NoTrace
    /\ IdleApi
    /\ IdlePose
    /\ IdleDet
    /\ IdlePar

\* flag, p, a1, amin = intersect_cube(data, obj, u)
IntersectCube ==
    /\ rt.pc = "start"
    /\ LET r == intersect_cube(los, hdr)
       IN  rt' = [rt EXCEPT !.pc = "boxed", !.flag = r.flag, !.p = r.p,
                            !.a1 = r.a1, !.amin = r.amin,
                            !.amax = ray_amax(los, hdr),
                            !.exit = ray_amax(los, hdr)]
    /\ UNCHANGED <<los, obst, hvars, avars, pose, det, par>>

\* 4.4, for a ray that intersects the box
ObstacleTrim ==
    /\ rt.pc = "boxed"
    /\ rt.flag
    /\ obst = "sun"
    /\ rt' = [rt EXCEPT !.pc = "trimmed",
                        !.exit = obstacle_trim(los, rt.amin, rt.amax)]
    /\ UNCHANGED <<los, obst, hvars, avars, pose, det, par>>

\* update, iv, D = initialize_raytracing(data, obj, u, p, a1, amin)
InitializeRaytracing ==
    /\ \/ rt.pc = "boxed" /\ ~(rt.flag /\ obst = "sun")
       \/ rt.pc = "trimmed"
    /\ LET e == ray_e(los, rt.amin)
           anyBad == \E k \in Axes : ~IsFin(e[k])
       IN  \E gs \in {g \in [Axes -> GarbageSign] :
                         \A k \in Axes : ~IsNaN(e[k]) => g[k] = 0},
              gc \in IF anyBad THEN GarbageUint ELSE {0} :
              LET r == initialize_raytracing(los, hdr, rt.p, rt.a1, rt.amin,
                                             gs, gc)
              IN  rt' = [rt EXCEPT !.pc = "ready", !.update = r.update,
                                   !.w = walk_start(r, rt.amin)]
    /\ UNCHANGED <<los, obst, hvars, avars, pose, det, par>>

\* 4.5, one iteration of the walker, for a ray that intersects the box
Voxel ==
    /\ rt.pc = "ready"
    /\ rt.flag
    /\ ~rt.w.done
    /\ rt' = [rt EXCEPT !.w = voxel(rt.w, rt.update, ray_pabs(rt.p), rt.amin,
                                    rt.exit, grid_shape(hdr))]
    /\ UNCHANGED <<los, obst, hvars, avars, pose, det, par>>

NextRay == IntersectCube \/ ObstacleTrim \/ InitializeRaytracing \/ Voxel

SpecRay == InitRay /\ [][NextRay]_vars

----------------------------------------------------------------------------
(* The header operations as a state machine.                               *)

MaxNaxis == 2
MaxSets == 2

NaxisVals == {F(i) : i \in 1 .. MaxNaxis}
CrpixVals == {F(0), Norm(1, 2), F(1)}
CdeltVals == {Norm(1, 2), F(1)}

\* the arguments of centered_cubic_map_header: scalars, a pair, triples
ShapeArgs ==
    {<<n>> : n \in NaxisVals} \cup {<<F(1), F(2)>>, <<F(2), F(1), F(1)>>}

PshapeArgs == {<<F(1)>>, <<F(1), F(2)>>, <<F(2), F(1), F(1)>>}

GeometryVals(name) ==
    CASE name = "NAXIS" -> NaxisVals
      [] name = "CRPIX" -> CrpixVals
      [] name = "CDELT" -> CdeltVals

InitHdr ==
    /\ \E ps \in PshapeArgs, sh \in ShapeArgs :
          /\ centered_cubic_map_header_ok(ps, sh)
          /\ hdr = centered_cubic_map_header(ps, sh)
          /\ built = <<Spread3(ps), Spread3(sh)>>
    /\ hop = "new"
    /\ nset = 0
    /\ IdleRay
    /\ IdleApi
    /\ IdlePose
    /\ IdleDet
    /\ IdlePar

\* header = centered_cubic_map_header(pshape, shape)
NewHeader ==
    /\ UNCHANGED <<rvars, avars, pose, det, par>>
    /\ \E ps \in PshapeArgs, sh \in ShapeArgs :
        IF centered_cubic_map_header_ok(ps, sh)
        THEN /\ hdr' = centered_cubic_map_header(ps, sh)
             /\ built' = <<Spread3(ps), Spread3(sh)>>
             /\ hop' = "new"
             /\ UNCHANGED nset
        ELSE /\ hop' = "ValueError"
             /\ UNCHANGED <<hdr, built, nset>>

\* the caller changes the geometry: header[name + str(i)] = v
SetKey ==
    /\ UNCHANGED <<rvars, avars, pose, det, par>>
    /\ nset < MaxSets
    /\ \E name \in {"NAXIS", "CRPIX", "CDELT"}, i \in 1 .. 3 :
         \E v \in GeometryVals(name) :
            /\ v # hdr[<<name, i>>]
            /\ hdr' = [hdr EXCEPT ![<<name, i>>] = v]
    /\ built' = NotBuilt
    /\ hop' = "set"
    /\ nset' = nset + 1

\* map_borders(header)
MapBorders ==
    /\ UNCHANGED <<rvars, avars, pose, det, par>>
    /\ hdr' = map_borders(hdr)
    /\ hop' = "map_borders"
    /\ UNCHANGED <<built, nset>>

NextHdr == NewHeader \/ SetKey \/ MapBorders

SpecHdr == InitHdr /\ [][NextHdr]_vars

----------------------------------------------------------------------------
(* The entry points as a state machine: a caller holding one data array    *)
(* and one cube calls them, with any obstacle argument.                    *)

MaxCalls == 2

DtypeVals == {"float32", "float64", "int32"}

ObstacleArgs == {"None", "sun", "moon"}

ApiMaps == {CornerMap, CenteredMap(3, 2)}

Ray(mx, my, mz, ux, uy, uz) ==
    [M |-> [k \in Axes |-> <<mx, my, mz>>[k + 1]],
     u |-> [k \in Axes |-> <<ux, uy, uz>>[k + 1]]]

\* lines of sight that cross the grids, miss them, cross the unit sphere
RayCross1 == Ray(F(-1), F(0), Norm(2, 3), F(1), F(1), F(0))
RayCross2 == Ray(F(0), F(-2), Norm(1, 3), F(1), F(2), F(0))
RayMiss1 == Ray(F(-1), Norm(3, 2), Norm(1, 2), F(1), F(1), F(0))
RayMiss2 == Ray(F(-1), F(5), Norm(1, 2), F(1), F(0), F(0))
RaySun1 == Ray(F(2), Norm(2, 3), Norm(2, 3), F(-1), F(0), F(0))
RaySun2 == Ray(Norm(2, 3), F(1), F(0), F(0), F(-1), F(1))

RaySets == {<<RayCross1, RayMiss1>>, <<RaySun1, RayCross2>>,
            <<RayMiss2, RaySun2>>}

Voxels(h) ==
    LET s == grid_shape(h)
    IN  {<<i, j, k>> : i \in 0 .. (s[0] - 1), j \in 0 .. (s[1] - 1),
                       k \in 0 .. (s[2] - 1)}

ZeroFrame(h) == [v \in Voxels(h) |-> F(0)]
OnesFrame(h) == [v \in Voxels(h) |-> F(1)]
RampFrame(h) == [v \in Voxels(h) |-> F(1 + v[1] + 2 * v[2])]

CubeVals(h, ndim) ==
    IF ndim = 3
    THEN {<<ZeroFrame(h)>>, <<OnesFrame(h)>>, <<RampFrame(h)>>}
    ELSE {<<ZeroFrame(h), ZeroFrame(h)>>, <<OnesFrame(h), RampFrame(h)>>}

DataVals == {<<F(0), F(0)>>, <<F(1), F(0)>>, <<F(0), F(1)>>, <<F(1), F(2)>>}

Init ==
    /\ \E h \in ApiMaps, rs \in RaySets, nd \in {3, 4}, y \in DataVals,
          dd \in DtypeVals, cd \in DtypeVals :
          \E x \in CubeVals(h, nd) :
             /\ data = [dtype |-> dd, val |-> y, rays |-> rs]
             /\ cube = [dtype |-> cd, ndim |-> nd, val |-> x, header |-> h]
             /\ IdleHdr(h)
    /\ api = [op |-> "none", obstacle |-> "None", outcome |-> "none",
              ran |-> FALSE, calls |-> 0, data0 |-> data, cube0 |-> cube]
    /\ IdleRay
    /\ IdlePose
    /\ IdleDet
    /\ IdlePar

\* a call and its return: r is what the entry point leaves
Call(op, obstacle, r) ==
    /\ data' = r.data
    /\ cube' = r.cube
    /\ api' = [op |-> op, obstacle |-> obstacle, outcome |-> r.outcome,
               ran |-> r.ran, calls |-> api.calls + 1,
               data0 |-> data, cube0 |-> cube]

Projector ==
    /\ api.calls < MaxCalls
    /\ cube.ndim = 3
    /\ \E obstacle \in ObstacleArgs :
          \E r \in {projector(data, cube, obstacle)} : Call("projector", obstacle, r)
    /\ UNCHANGED <<hvars, rvars, pose, det, par>>

Backprojector ==
    /\ api.calls < MaxCalls
    /\ cube.ndim = 3
    /\ \E obstacle \in ObstacleArgs :
          \E r \in {backprojector(data, cube, obstacle)} : Call("backprojector", obstacle, r)
    /\ UNCHANGED <<hvars, rvars, pose, det, par>>

Projector4d ==
    /\ api.calls < MaxCalls
    /\ cube.ndim = 4
    /\ \E obstacle \in ObstacleArgs :
          \E r \in {projector4d(data, cube, obstacle)} : Call("projector4d", obstacle, r)
    /\ UNCHANGED <<hvars, rvars, pose, det, par>>

Backprojector4d ==
    /\ api.calls < MaxCalls
    /\ cube.ndim = 4
    /\ \E obstacle \in ObstacleArgs :
          \E r \in {backprojector4d(data, cube, obstacle)} :
             Call("backprojector4d", obstacle, r)
    /\ UNCHANGED <<hvars, rvars, pose, det, par>>

Next == Projector \/ Backprojector \/ Projector4d \/ Backprojector4d

Spec == Init /\ [][Next]_vars

----------------------------------------------------------------------------
(* The pose of one image and its rotation matrix, kept in the data header. *)

MaxTurn == 2

Turns == (-MaxTurn) .. MaxTurn

InitPose ==
    /\ \E lon \in Turns, lat \in Turns, rol \in Turns :
          pose = [LON |-> lon, LAT |-> lat, ROL |-> rol, R |-> NoMatrix]
    /\ IdleDet
    /\ IdleHdr(NotBuilt)
    /\ IdleRay
    /\ IdleApi
    /\ IdlePar

\* header["LON"][t] = v, and so for LAT and ROL
SetPose ==
    /\ \E v \in Turns :
          \/ v # pose.LON /\ pose' = [pose EXCEPT !.LON = v]
          \/ v # pose.LAT /\ pose' = [pose EXCEPT !.LAT = v]
          \/ v # pose.ROL /\ pose' = [pose EXCEPT !.ROL = v]
    /\ UNCHANGED <<hvars, rvars, avars, det, par>>

\* full_rotation_matrix(data)
FullRotationMatrix ==
    /\ pose' = [pose EXCEPT !.R = rotation_matrix(pose.LON, pose.LAT,
                                                  pose.ROL)]
    /\ UNCHANGED <<hvars, rvars, avars, det, par>>

NextPose == SetPose \/ FullRotationMatrix

SpecPose == InitPose /\ [][NextPose]_vars

----------------------------------------------------------------------------
(* Properties.                                                             *)

RECURSIVE SumLen(_)
SumLen(segs) ==
    IF segs = <<>> THEN F(0) ELSE FAdd(segs[1].len, SumLen(Tail(segs)))

Boxed == rt.pc # "start"
Walked == rt.pc = "ready" /\ rt.flag /\ rt.w.done

\* the line of sight passes through the grid origin (0, 0, 0)
ThroughOrigin(ray) ==
    \A i, j \in Axes :
        FMul(ray.M[i], ray.u[j]) = FMul(ray.M[j], ray.u[i])

\* C5 (as claimed) - path-length conservation: for a ray that intersects the
\* box, traced with no obstacle, the lengths of the segments the walker emits
\* from the state produced by initialize_raytracing sum to exit - entry.
C5_PathLengthConserved ==
    (Walked /\ obst = "None") =>
        SumLen(rt.w.segs) = FSub(rt.amax, rt.amin)

RootsInside ==
    /\ FLe(rt.amin, sphere_roots(los)[1])
    /\ FLe(sphere_roots(los)[2], rt.amax)

ZeroAxes == {k \in Axes : IsZero(los.u[k])}
BindingAxes == Axes \ ZeroAxes

TrueMax(S) == CHOOSE m \in S : \A x \in S : FLe(x, m)
TrueMin(S) == CHOOSE m \in S : \A x \in S : FLe(m, x)

\* the origin lies between the two bounding planes of axis k, or on one
InSlab(k) ==
    /\ FLe(dict_to_array(hdr, "Mmin")[k], los.M[k])
    /\ FLe(los.M[k], dict_to_array(hdr, "Mmax")[k])

\* C9 (as claimed) - axis-aligned rays: for a ray whose direction is exactly
\* 0 on some axes, the origin lying between the bounding planes of those
\* axes or exactly on one of them, the entry and the exit are the max of
\* minima and the min of maxima of the other axes, neither is NaN, and the
\* D_k that initialize_raytracing returns are not NaN, +infinity on the
\* axes of direction 0.
C9_ZeroAxisNonBinding ==
    (ZeroAxes # {} /\ \A k \in ZeroAxes : InSlab(k)) =>
        /\ Boxed =>
            /\ ~IsNaN(rt.amin)
            /\ ~IsNaN(rt.amax)
            /\ rt.amin = TrueMax({ray_I(los, hdr)[k].imin : k \in BindingAxes})
            /\ rt.amax = TrueMin({ray_I(los, hdr)[k].imax : k \in BindingAxes})
        /\ (rt.pc = "ready" /\ rt.w.segs = <<>> /\ ~rt.w.done) =>
            \A k \in Axes :
                /\ ~IsNaN(rt.w.D[k])
                /\ k \in ZeroAxes => rt.w.D[k] = PInf

----------------------------------------------------------------------------
(* The entry points.                                                       *)

AfterOk(ops) == api.op \in ops /\ api.outcome = "ok"

ValuesUnchanged ==
    /\ data.val = api.data0.val
    /\ data.dtype = api.data0.dtype
    /\ cube.val = api.cube0.val
    /\ cube.dtype = api.cube0.dtype

RECURSIVE DotData(_, _)
DotData(a, b) ==
    IF a = <<>> THEN F(0)
    ELSE FAdd(FMul(Head(a), Head(b)), DotData(Tail(a), Tail(b)))

RECURSIVE DotOver(_, _, _)
DotOver(V, x, z) ==
    IF V = {} THEN F(0)
    ELSE LET v == CHOOSE q \in V : TRUE
         IN  FAdd(FMul(x[v], z[v]), DotOver(V \ {v}, x, z))

DotFrame(x, z) == DotOver(DOMAIN x, x, z)

ZeroData == [r \in DOMAIN data.val |-> F(0)]

\* C1 - adjointness: after projector on a zeroed data array, for every ray
\* value vector y, sum over rays of data[r] * y[r] equals sum over voxels of
\* cube[v] * backprojector(y)[v], backprojector run on a zeroed cube with
\* the same rays, header and obstacle; and after backprojector on a zeroed
\* cube, the same with the roles exchanged, for every cube x.
C1_Adjointness ==
    /\ (AfterOk({"projector"}) /\ api.data0.val = ZeroData) =>
          \A y \in DataVals :
             DotData(data.val, y) =
             DotFrame(cube.val[1],
                      backprojector([data EXCEPT !.val = y],
                                    [cube EXCEPT !.val =
                                        <<ZeroFrame(cube.header)>>],
                                    api.obstacle).cube.val[1])
    /\ (AfterOk({"backprojector"})
          /\ api.cube0.val = <<ZeroFrame(cube.header)>>) =>
          \A x \in CubeVals(cube.header, 3) :
             DotData(projector([data EXCEPT !.val = ZeroData],
                               [cube EXCEPT !.val = x],
                               api.obstacle).data.val,
                     data.val) =
             DotFrame(x[1], cube.val[1])

C1_Witness ==
    /\ AfterOk({"projector"})
    /\ api.data0.val = ZeroData
    /\ \E y \in DataVals : DotData(data.val, y) # F(0)

\* C2 - dtype mismatch: whichever of projector, backprojector, projector4d
\* and backprojector4d is called, if data.dtype differs from cube.dtype the
\* call ends in a ValueError, the kernel has not run, and the values and
\* dtypes of data and cube are what they were before the call.
C2_DtypeMismatch ==
    (api.op # "none" /\ api.data0.dtype # api.cube0.dtype) =>
        /\ api.outcome = "ValueError"
        /\ ~api.ran
        /\ ValuesUnchanged

C2_Witness ==
    /\ api.op = "backprojector4d"
    /\ api.data0.dtype # api.cube0.dtype
    /\ api.data0.dtype \in ctypes_inv
    /\ api.obstacle \in obstacles_inv
    /\ api.data0.val # ZeroData
    /\ api.outcome = "ValueError"

\* C3 - obstacle selector: projector and backprojector called with an
\* obstacle other than None and "sun" end in an error, the kernel has not
\* run, and data and cube are unchanged; called with None or "sun" on
\* arrays of one supported dtype they run the kernel.
C3_ObstacleSelector ==
    (api.op \in {"projector", "backprojector"}) =>
        /\ api.obstacle \notin {"None", "sun"} =>
              /\ api.outcome \in {"KeyError", "ValueError"}
              /\ ~api.ran
              /\ ValuesUnchanged
        /\ (api.obstacle \in {"None", "sun"}
              /\ api.data0.dtype = api.cube0.dtype
              /\ api.data0.dtype \in {"float32", "float64"}) =>
              api.outcome = "ok" /\ api.ran

C3_Witness ==
    /\ api.op = "projector"
    /\ api.obstacle = "moon"
    /\ api.data0.dtype = api.cube0.dtype
    /\ api.data0.dtype \in ctypes_inv
    /\ api.outcome = "KeyError"

\* the line of ray r does not intersect the box: not entry < exit
Miss(r) ==
    ~FLt(ray_amin(data.rays[r], cube.header),
         ray_amax(data.rays[r], cube.header))

\* C4 - box-miss zero contribution: a projection adds nothing to the value
\* of a ray that misses the box (exactly 0 on a zeroed data array), and a
\* backprojection leaves the cube as the backprojection of the other rays
\* alone leaves it, whatever the values of the rays that miss: untouched if
\* every ray with a non-zero value misses.
C4_BoxMissZero ==
    /\ AfterOk({"projector", "projector4d"}) =>
          \A r \in DOMAIN data.val :
             Miss(r) => data.val[r] = api.data0.val[r]
    /\ AfterOk({"backprojector", "backprojector4d"}) =>
          ((\A r \in DOMAIN data.val : Miss(r) \/ data.val[r] = F(0))
              => cube.val = api.cube0.val)
    /\ AfterOk({"backprojector"}) =>
          cube.val =
          backprojector([data EXCEPT !.val =
                            [r \in DOMAIN data.val |->
                                IF Miss(r) THEN F(0) ELSE data.val[r]]],
                        api.cube0, api.obstacle).cube.val

C4_Witness ==
    /\ AfterOk({"backprojector"})
    /\ \E r \in DOMAIN data.val : Miss(r) /\ data.val[r] # F(0)
    /\ \E r \in DOMAIN data.val : ~Miss(r) /\ data.val[r] # F(0)
    /\ cube.val # api.cube0.val

----------------------------------------------------------------------------
(* The rotation matrix.                                                    *)

RowDot(R, i, j) == R[i][0] * R[j][0] + R[i][1] * R[j][1] + R[i][2] * R[j][2]

ColDot(R, i, j) == R[0][i] * R[0][j] + R[1][i] * R[1][j] + R[2][i] * R[2][j]

Det(R) ==
    R[0][0] * (R[1][1] * R[2][2] - R[1][2] * R[2][1])
    - R[0][1] * (R[1][0] * R[2][2] - R[1][2] * R[2][0])
    + R[0][2] * (R[1][0] * R[2][1] - R[1][1] * R[2][0])

\* C6 - orthonormality: the matrix R that rotation_matrix returns for angles
\* that are multiples of pi/2 satisfies R * transpose(R) = I: rows, and
\* columns, are of unit length and mutually orthogonal.
C6_Orthonormal ==
    (pose.R # NoMatrix) =>
        \A i \in Axes, j \in Axes :
            /\ RowDot(pose.R, i, j) = (IF i = j THEN 1 ELSE 0)
            /\ ColDot(pose.R, i, j) = (IF i = j THEN 1 ELSE 0)

C6_Witness ==
    /\ pose.R # NoMatrix
    /\ pose.R = rotation_matrix(pose.LON, pose.LAT, pose.ROL)
    /\ pose.LON % 4 = 1
    /\ pose.LAT % 4 = 3
    /\ pose.ROL % 4 = 2

\* C7 (as claimed) - proper rotation: the matrix R that rotation_matrix
\* returns has determinant 1, for every (lon, lat, rol), lon = lat = rol = 0
\* included.
C7_ProperRotation == (pose.R # NoMatrix) => Det(pose.R) = 1

----------------------------------------------------------------------------
(* The grid geometry.                                                      *)

Geometry == {<<n, i>> : n \in {"NAXIS", "CRPIX", "CDELT", "CRVAL"},
                        i \in 1 .. 3}

\* the derived keys hold the values computed from the geometry in the header
Derived ==
    \A k \in 1 .. 3 :
        /\ hdr[<<"PSHAPE", k - 1>>] =
              FMul(hdr[<<"CDELT", k>>], hdr[<<"NAXIS", k>>])
        /\ hdr[<<"Mmin", k - 1>>] =
              FMul(FNeg(hdr[<<"CRPIX", k>>]), hdr[<<"CDELT", k>>])
        /\ hdr[<<"Mmax", k - 1>>] =
              FAdd(hdr[<<"Mmin", k - 1>>], hdr[<<"PSHAPE", k - 1>>])

\* the box of a header built by centered_cubic_map_header(pshape, shape)
Centered ==
    \A k \in 1 .. 3 :
        /\ hdr[<<"Mmin", k - 1>>] = FNeg(FDiv(built[1][k], F(2)))
        /\ hdr[<<"Mmax", k - 1>>] = FDiv(built[1][k], F(2))

\* C10 - grid geometry derivation: whenever map_borders has just run, after
\* any sequence of geometry changes and earlier calls, PSHAPE_k = CDELT_k *
\* NAXIS_k, Mmin_k = -CRPIX_k * CDELT_k and Mmax_k = Mmin_k + PSHAPE_k for
\* the geometry now in the header; on a header as centered_cubic_map_header
\* built it, Mmin_k = -pshape_k / 2 and Mmax_k = pshape_k / 2; and
\* map_borders leaves the NAXIS, CRPIX, CDELT and CRVAL keys as they were.
C10_GeometryDerivation ==
    /\ [](hop = "map_borders" =>
             /\ Derived
             /\ built # NotBuilt => Centered)
    /\ [][hop' = "map_borders" =>
             \A g \in Geometry : hdr'[g] = hdr[g]]_vars

C10_Witness ==
    /\ hop = "map_borders"
    /\ nset = MaxSets
    /\ hdr[<<"Mmax", 0>>] # FNeg(hdr[<<"Mmin", 0>>])
    /\ hdr[<<"NAXIS", 1>>] # F(1)

----------------------------------------------------------------------------
(* Backprojection by several workers into one shared grid.  The rays are   *)
(* dealt out to the workers; a worker accumulates the segments of its rays *)
(* one after the other, by one atomic add per segment into the shared      *)
(* grid, or into a partial grid of its own, the partial grids being summed *)
(* into the shared grid once every worker has finished.                    *)

MaxWorkers == 2

Workers == 1 .. MaxWorkers

\* the add of x into voxel v that overwrites what the voxel held
add_at_overwrite(frame, v, x) == [frame EXCEPT ![v] = x]

\* grid[voxel_index] += x, as one indivisible step
add_at(frame, v, x) == [frame EXCEPT ![v] = FAdd(@, x)]

\* the adds of one ray: ray_value * segment_length into each voxel
RECURSIVE ray_adds(_, _)
ray_adds(segs, y) ==
    IF segs = <<>> THEN <<>>
    ELSE <<[iv |-> Vox(Head(segs).iv), x |-> FMul(y, Head(segs).len)]>>
         \o ray_adds(Tail(segs), y)

\* the adds of worker w: those of its rays r .. Len(segs), in order
RECURSIVE worker_adds(_, _, _, _, _)
worker_adds(w, r, assign, segs, y) ==
    IF r > Len(segs) THEN <<>>
    ELSE (IF assign[r] = w THEN ray_adds(segs[r], y[r]) ELSE <<>>)
         \o worker_adds(w, r + 1, assign, segs, y)

\* the sum over the workers 1 .. w of their partial grids, at voxel v
RECURSIVE parts_sum(_, _, _)
parts_sum(w, part, v) ==
    IF w = 0 THEN F(0) ELSE FAdd(parts_sum(w - 1, part, v), part[w][v])

\* the reduction: the partial grids summed into the shared grid
reduce(grid, part) ==
    [v \in DOMAIN grid |-> FAdd(grid[v], parts_sum(MaxWorkers, part, v))]

InitPar ==
    /\ \E h \in ApiMaps, rs \in RaySets, y \in DataVals,
          obstacle \in obstacles_inv, mode \in {"atomic", "partial"},
          assign \in [1 .. 2 -> Workers] :
          \E x \in CubeVals(h, 3) :
             LET segs == [r \in 1 .. Len(rs) |-> ray_segs(rs[r], h, obstacle)]
             IN  /\ par = [mode |-> mode, assign |-> assign, rays |-> rs,
                           y |-> y, obstacle |-> obstacle, grid0 |-> x[1],
                           grid |-> x[1],
                           part |-> [w \in Workers |-> ZeroFrame(h)],
                           todo |-> [w \in Workers |->
                                       worker_adds(w, 1, assign, segs, y)],
                           reduced |-> FALSE]
                 /\ IdleHdr(h)
    /\ IdleRay
    /\ IdleApi
    /\ IdlePose
    /\ IdleDet

\* one worker adds its next segment into the shared grid, atomically
AtomicAdd ==
    /\ par.mode = "atomic"
    /\ \E w \in Workers :
          /\ par.todo[w] # <<>>
          /\ par' = [par EXCEPT
                       !.grid = add_at(@, Head(par.todo[w]).iv,
                                       Head(par.todo[w]).x),
                       !.todo[w] = Tail(@)]
    /\ UNCHANGED <<hvars, rvars, avars, pose, det>>

\* one worker adds its next segment into its own partial grid
PartialAdd ==
    /\ par.mode = "partial"
    /\ \E w \in Workers :
          /\ par.todo[w] # <<>>
          /\ par' = [par EXCEPT
                       !.part[w] = add_at(@, Head(par.todo[w]).iv,
                                          Head(par.todo[w]).x),
                       !.todo[w] = Tail(@)]
    /\ UNCHANGED <<hvars, rvars, avars, pose, det>>

\* every worker has finished: the partial grids are summed into the grid
Reduce ==
    /\ par.mode = "partial"
    /\ ~par.reduced
    /\ \A w \in Workers : par.todo[w] = <<>>
    /\ par' = [par EXCEPT !.grid = reduce(@, par.part), !.reduced = TRUE]
    /\ UNCHANGED <<hvars, rvars, avars, pose, det>>

NextPar == AtomicAdd \/ PartialAdd \/ Reduce

SpecPar == InitPar /\ [][NextPar]_vars

ParDone ==
    /\ par.mode \in {"atomic", "partial"}
    /\ \A w \in Workers : par.todo[w] = <<>>
    /\ par.mode = "partial" => par.reduced

Reverse(q) == [i \in 1 .. Len(q) |-> q[Len(q) + 1 - i]]

\* the grid backprojector leaves, called with the rays in the order given
Sequential(rays, y) ==
    backprojector([dtype |-> "float64", val |-> y, rays |-> rays],
                  [dtype |-> "float64", ndim |-> 3, val |-> <<par.grid0>>,
                   header |-> hdr],
                  par.obstacle).cube.val[1]

\* the contributions of ray r to voxel v, summed over its segments
RECURSIVE Contribution(_, _)
Contribution(adds, v) ==
    IF adds = <<>> THEN F(0)
    ELSE FAdd(IF Head(adds).iv = v THEN Head(adds).x ELSE F(0),
              Contribution(Tail(adds), v))

RayAdds(r) == ray_adds(ray_segs(par.rays[r], hdr, par.obstacle), par.y[r])

\* C11 - concurrent backprojection: when every worker has finished (and the
\* partial grids are reduced), whatever the interleaving of the workers and
\* whichever way the rays were dealt out, the shared grid is the grid the
\* sequential backprojector leaves with the rays in either order, and every
\* voxel holds its initial value plus the contributions of all the rays.
C11_ConcurrentBackprojection ==
    ParDone =>
        /\ par.grid = Sequential(par.rays, par.y)
        /\ par.grid = Sequential(Reverse(par.rays), Reverse(par.y))
        /\ \A v \in DOMAIN par.grid :
              par.grid[v] = FAdd(par.grid0[v],
                                 FAdd(Contribution(RayAdds(1), v),
                                      Contribution(RayAdds(2), v)))

\* two workers have written into one voxel
C11_Witness ==
    /\ ParDone
    /\ par.mode = "atomic"
    /\ par.assign[1] # par.assign[2]
    /\ \E v \in DOMAIN par.grid :
          /\ Contribution(RayAdds(1), v) # F(0)
          /\ Contribution(RayAdds(2), v) # F(0)

----------------------------------------------------------------------------
(* The ray tracing initialisation, claim by claim.                         *)

\* every per-axis parameter a1_k, an_k of the line of sight is finite
AllFinite ==
    \A k \in Axes : IsFin(rt.a1[k]) /\ IsFin(ray_an(los, hdr)[k])

\* the per-axis parameters of the line of sight
AxisParams == {rt.a1[k] : k \in Axes} \cup {ray_an(los, hdr)[k] : k \in Axes}

AxisMin(k) == TrueMin({rt.a1[k], ray_an(los, hdr)[k]})
AxisMax(k) == TrueMax({rt.a1[k], ray_an(los, hdr)[k]})

\* C12 - box intersection: when every a1_k and an_k is finite, compare
\* returns (min, max) of a1_k and an_k on every axis, max3 and min3 return
\* the maximum and the minimum of any three of these parameters, in any
\* order and with ties, and intersect_cube returns amin = max over k of
\* min(a1_k, an_k) and flag = (amin < min over k of max(a1_k, an_k)).
C12_BoxIntersection ==
    (Boxed /\ AllFinite) =>
        /\ \A k \in Axes :
              /\ compare(rt.a1[k], ray_an(los, hdr)[k]).imin = AxisMin(k)
              /\ compare(rt.a1[k], ray_an(los, hdr)[k]).imax = AxisMax(k)
        /\ \A x \in AxisParams, y \in AxisParams, z \in AxisParams :
              /\ max3(x, y, z) = TrueMax({x, y, z})
              /\ min3(x, y, z) = TrueMin({x, y, z})
        /\ rt.amin = TrueMax({AxisMin(k) : k \in Axes})
        /\ rt.amax = TrueMin({AxisMax(k) : k \in Axes})
        /\ rt.flag = FLt(TrueMax({AxisMin(k) : k \in Axes}),
                         TrueMin({AxisMax(k) : k \in Axes}))

\* a ray that intersects the box, two axes tied for the entry
C12_Witness ==
    /\ Boxed
    /\ AllFinite
    /\ rt.flag
    /\ AxisMin(0) = AxisMin(1)
    /\ AxisMin(0) = rt.amin
    /\ FLt(AxisMin(2), rt.amin)

\* the sign of a direction component: 0 for 0.0 and for -0.0
DirSign(a) == IF FLt(a, F(0)) THEN -1 ELSE IF FGt(a, F(0)) THEN 1 ELSE 0

\* initialize_raytracing has returned
Initialized == rt.pc = "ready" /\ rt.w.segs = <<>> /\ ~rt.w.done

\* C13 (as claimed) - step signs: for every ray and every axis k, the
\* update_k that initialize_raytracing returns is sign(direction_k),
\* whatever the coordinates of the entry point.
C13_StepSigns ==
    Initialized => \A k \in Axes : rt.update[k] = DirSign(los.u[k])

\* the entry point e = origin + entry * direction lies in the box
EntryInBox ==
    \A k \in Axes :
        /\ FLe(dict_to_array(hdr, "Mmin")[k], ray_e(los, rt.amin)[k])
        /\ FLe(ray_e(los, rt.amin)[k], dict_to_array(hdr, "Mmax")[k])

\* C14 (as claimed) - initial voxel in bounds: for every ray flagged as
\* intersecting the box, the entry point lies in the box and the initial
\* voxel index that initialize_raytracing returns is inside the grid,
\* 0 <= iv_k <= NAXIS_k - 1 on every axis.
C14_InitialVoxelInBounds ==
    (Initialized /\ rt.flag) =>
        /\ EntryInBox
        /\ in_obj(grid_shape(hdr), rt.w.iv)

\* C14 (the part that holds) - for a flagged ray whose entry point lies in
\* the box, faces included, the initial voxel index is inside the grid.
C14_InitialVoxelOfEntryInBox ==
    (Initialized /\ rt.flag /\ EntryInBox) =>
        in_obj(grid_shape(hdr), rt.w.iv)

\* |cellsize_k / direction_k|: the parameter a ray spends crossing one cell
CellStep(k) == FAbs(FDiv(dict_to_array(hdr, "CDELT")[k], los.u[k]))

\* C15 (as claimed) - distance to the next boundary: for every intersecting
\* ray and every axis k of non-zero direction, the D_k that
\* initialize_raytracing returns lies between 0 and |cellsize_k /
\* direction_k|, the distance from the entry point to the next boundary
\* plane of axis k.
C15_DistanceToNextBoundary ==
    (Initialized /\ rt.flag) =>
        \A k \in Axes :
            ~IsZero(los.u[k]) =>
                /\ FLe(F(0), rt.w.D[k])
                /\ FLe(rt.w.D[k], CellStep(k))

\* C16 (as claimed) - segment validity under ties: for every intersecting
\* ray, the segments the walker has emitted from the state produced by
\* initialize_raytracing all have a strictly positive length, follow one
\* another from the entry without overlap, name no voxel twice and name
\* voxels inside the grid only.
C16_SegmentValidity ==
    (rt.pc = "ready" /\ rt.flag) =>
        /\ \A i \in DOMAIN rt.w.segs :
              /\ FGt(rt.w.segs[i].len, F(0))
              /\ in_obj(grid_shape(hdr), rt.w.segs[i].iv)
        /\ \A i \in DOMAIN rt.w.segs, j \in DOMAIN rt.w.segs :
              i # j => rt.w.segs[i].iv # rt.w.segs[j].iv
        /\ rt.w.ac = FAdd(rt.amin, SumLen(rt.w.segs))

----------------------------------------------------------------------------
(* The lines of sight of a detector.  data.shape = (n1, n2, 1): one image  *)
(* of n1 x n2 pixels; CRPIX1, CRPIX2 are its reference pixel and CDELT1,   *)
(* CDELT2 its pixel scales, counted in quarter turns like the pose angles. *)

\* (np.arange(n) - crpix) * cdelt
offsets(n, crpix, cdelt) == [i \in 0 .. (n - 1) |-> (i - crpix) * cdelt]

\* np.meshgrid(g, l): two arrays of shape (len(l), len(g)),
\* G[a, b] = g[b] and L[a, b] = l[a]
meshgrid(g, l) ==
    [G |-> [a \in DOMAIN l |-> [b \in DOMAIN g |-> g[b]]],
     L |-> [a \in DOMAIN l |-> [b \in DOMAIN g |-> l[a]]]]

\* the intermediary unit vector (cos L cos G, cos L sin G, sin L)
local_vector(G, L) ==
    [k \in Axes |-> CASE k = 0 -> cos(L) * cos(G)
                      [] k = 1 -> cos(L) * sin(G)
                      [] k = 2 -> sin(L)]

apply_rotation(R, u2) ==
    [k \in Axes |-> R[k][0] * u2[0] + R[k][1] * u2[1] + R[k][2] * u2[2]]

\* full_unit_vector for the image of detector d, R the matrix found under
\* the keys R0_0 .. R2_2 of the header (NoMatrix: the keys are not there).
\* u2[..., 0] = np.cos(L) * np.cos(G) assigns an array of shape (n2, n1)
\* to one of shape (n1, n2): a ValueError unless n1 = n2.
full_unit_vector(R, d) ==
    LET n1 == d.shape[1]
        n2 == d.shape[2]
        m == meshgrid(offsets(n1, d.CRPIX1, d.CDELT1),
                      offsets(n2, d.CRPIX2, d.CDELT2))
    IN  IF R = NoMatrix \/ n1 # n2
        THEN [outcome |-> "ValueError", u |-> NoMatrix]
        ELSE [outcome |-> "ok",
              u |-> [i \in 0 .. (n1 - 1) |-> [j \in 0 .. (n2 - 1) |->
                       apply_rotation(R, local_vector(m.G[i][j],
                                                      m.L[i][j]))]]]

Detector(n1, n2, crpix1, crpix2, cdelt1, cdelt2) ==
    [shape |-> <<n1, n2>>, CRPIX1 |-> crpix1, CRPIX2 |-> crpix2,
     CDELT1 |-> cdelt1, CDELT2 |-> cdelt2]

\* a square detector, one of a single pixel at the reference pixel, and
\* one that is not square
DetVals == {Detector(2, 2, 0, 1, 1, 2), Detector(1, 1, 0, 0, 1, 1),
            Detector(2, 1, 0, 0, 1, 1)}

InitDet ==
    /\ \E lon \in Turns, lat \in Turns, rol \in Turns :
          pose = [LON |-> lon, LAT |-> lat, ROL |-> rol, R |-> NoMatrix]
    /\ \E d \in DetVals :
          det = [op |-> "none", d |-> d, outcome |-> "none", u |-> NoMatrix]
    /\ IdleHdr(NotBuilt)
    /\ IdleRay
    /\ IdleApi
    /\ IdlePar

\* u = full_unit_vector(data)
FullUnitVector ==
    /\ \E r \in {full_unit_vector(pose.R, det.d)} :
          det' = [det EXCEPT !.op = "full_unit_vector",
                             !.outcome = r.outcome, !.u = r.u]
    /\ UNCHANGED <<hvars, rvars, avars, pose, par>>

NextDet == SetPose \/ FullRotationMatrix \/ FullUnitVector

SpecDet == InitDet /\ [][NextDet]_vars

\* the directions of the detector under the pose now in the header
FreshDirections ==
    full_unit_vector(rotation_matrix(pose.LON, pose.LAT, pose.ROL), det.d).u

\* C17 (as claimed) - pose cache freshness: after any sequence of LON / LAT
\* / ROL updates and calls of full_rotation_matrix and full_unit_vector,
\* the directions a call of full_unit_vector returns are those derived
\* from the LON, LAT, ROL the header holds at the call, never from a matrix
\* cached before the last pose change.
C17_PoseCacheFresh ==
    [][(FullUnitVector /\ det'.outcome = "ok") =>
          det'.u = FreshDirections]_vars

\* R applied to (cos l cos g, cos l sin g, sin l), g and l the offsets of
\* pixel (i, j) from the reference pixel on axis 1 and on axis 2
PixelDirection(R, d, i, j) ==
    apply_rotation(R, local_vector((i - d.CRPIX1) * d.CDELT1,
                                   (j - d.CRPIX2) * d.CDELT2))

\* C18 (as claimed) - per-pixel direction: for a detector of shape
\* (n1, n2), square or not, whose rotation matrix R is in the header,
\* full_unit_vector returns, for every pixel (i, j), R applied to
\* (cos l cos g, cos l sin g, sin l) with g = (i - CRPIX1) * CDELT1 and
\* l = (j - CRPIX2) * CDELT2; R applied to (1, 0, 0) at the reference pixel.
C18_PixelDirection ==
    [][(FullUnitVector /\ pose.R # NoMatrix) =>
          /\ det'.outcome = "ok"
          /\ \A i \in 0 .. (det.d.shape[1] - 1),
                j \in 0 .. (det.d.shape[2] - 1) :
                det'.u[i][j] = PixelDirection(pose.R, det.d, i, j)]_vars

====
